---- MODULE Spec2Model ----
(***************************************************************************)
(* electrum/constants.py: the network-parameter registry.                  *)
(*                                                                         *)
(* The module is modelled as Python executes it: the import runs the       *)
(* top-level statements in order (helpers, class AbstractNet, class        *)
(* AIPGMainnet, class AIPGTestnet, then lines 259-278), binding names in   *)
(* the module namespace.  The bundled JSON resources are the environment:  *)
(* each one is missing, not valid JSON, or holds some JSON value.          *)
(* A JSON value is abstracted to its kind and its length (the claims only  *)
(* depend on len()), a dict is a sequence of <<key, value>> pairs in       *)
(* insertion order.                                                        *)
(***************************************************************************)
EXTENDS Integers, Sequences, FiniteSets, TLC

VARIABLES
    pc,         \* the import's position: the next top-level statement group
    globals,    \* the names bound in the module namespace
    files,      \* the bundled resources (environment), by file name
    classes,    \* the class objects built so far, by class name
    NETS_LIST,  \* the value of NETS_LIST (a set of class names)
    net,        \* the value bound to the global `net`, Unbound when it has none
    exc,        \* the exception the last operation ended with ("none" if it returned)
    lastCall,   \* the switch function called last
    ncalls,     \* the number of switch calls made
    rpc,        \* the reader's position
    snap,       \* the reader's snapshot of `net`
    seen,       \* the fields the reader has read through its snapshot
    d,          \* the dict handed to inv_dict (SpecInv)
    d_inv,      \* what inv_dict returned for d (SpecInv)
    ipc         \* the position of the inv_dict application (SpecInv)

vars == <<pc, globals, files, classes, NETS_LIST, net, exc, lastCall, ncalls,
          rpc, snap, seen, d, d_inv, ipc>>

----------------------------------------------------------------------------
(* Bounds *)

MaxLen == 2

MaxCalls == 3

MaxVersion == 5

\* list lengths of the concrete scenarios: 168 legacy, 5000 DGW checkpoints
ScenarioLens == {168, 5000}

ListLens == (0..MaxLen) \cup ScenarioLens

----------------------------------------------------------------------------
(* Python values *)

Unbound == "<unbound>"

JsonList(n) == [kind |-> "list", len |-> n]

JsonDict(n) == [kind |-> "dict", len |-> n]

\* a JSON number, boolean or null: a value without len()
JsonScalar == [kind |-> "scalar", len |-> 0]

None == [kind |-> "None", len |-> 0]

\* what a resource can be: absent, not parseable as JSON, or some JSON value
FileStates ==
    {[kind |-> "missing", len |-> 0], [kind |-> "invalid", len |-> 0], JsonScalar}
        \cup {JsonList(n) : n \in ListLens}
        \cup {JsonDict(n) : n \in 0..1}

FileNames == {"checkpoints.json", "checkpoints_dgw.json", "checkpoints_dgw_testnet.json"}

Max(a, b) == IF a >= b THEN a ELSE b

\* len(v): defined for lists and dicts, TypeError otherwise
HasLen(v) == v.kind \in {"list", "dict"}

----------------------------------------------------------------------------
(* dicts: sequences of <<key, value>> pairs in insertion order *)

DictHas(r, k) == \E i \in DOMAIN r : r[i][1] = k

DictGet(r, k) == r[CHOOSE i \in DOMAIN r : r[i][1] = k][2]

\* r[k] = v : an existing key keeps its place and takes the new value
DictSet(r, k, v) ==
    IF DictHas(r, k)
    THEN [i \in DOMAIN r |-> IF r[i][1] = k THEN <<k, v>> ELSE r[i]]
    ELSE Append(r, <<k, v>>)

RECURSIVE inv_dict_items(_, _)
inv_dict_items(dd, n) ==
    IF n = 0 THEN <<>>
    ELSE DictSet(inv_dict_items(dd, n - 1), dd[n][2], dd[n][1])

\* a plausible slip: the comprehension stops one item short
inv_dict_short(dd) == inv_dict_items(dd, Max(0, Len(dd) - 1))

\* {v: k for k, v in d.items()}
inv_dict(dd) == inv_dict_items(dd, Len(dd))

\* try: json.loads(open(path).read())  except: default
read_json(filename, default) ==
    IF files[filename].kind \in {"missing", "invalid"} THEN default
    ELSE files[filename]

----------------------------------------------------------------------------
(* The classes *)

\* the class attributes AbstractNet sets (lines 75-80)
AbstractNet ==
    [CHECKPOINTS |-> None, DGW_CHECKPOINTS |-> None,
     DGW_CHECKPOINTS_SPACING |-> 0, DGW_CHECKPOINTS_START |-> 0, MATURE |-> 0]

Mainnet_XPRV_HEADERS ==
    << <<"standard", 76066276>>, <<"p2wpkh-p2sh", 77428856>>, <<"p2wsh-p2sh", 43364357>>,
       <<"p2wpkh", 78791436>>, <<"p2wsh", 44726937>> >>

Mainnet_XPUB_HEADERS ==
    << <<"standard", 76067358>>, <<"p2wpkh-p2sh", 77429938>>, <<"p2wsh-p2sh", 43365439>>,
       <<"p2wpkh", 78792518>>, <<"p2wsh", 44728019>> >>

Testnet_XPRV_HEADERS ==
    << <<"standard", 70615956>>, <<"p2wpkh-p2sh", 71978536>>, <<"p2wsh-p2sh", 37914037>>,
       <<"p2wpkh", 73341116>>, <<"p2wsh", 39276616>> >>

Testnet_XPUB_HEADERS ==
    << <<"standard", 70617039>>, <<"p2wpkh-p2sh", 71979618>>, <<"p2wsh-p2sh", 37915119>>,
       <<"p2wpkh", 73342198>>, <<"p2wsh", 39277699>> >>

Mainnet_BURN_ADDRESSES ==
    [IssueAssetBurnAddress |-> "AIissueAssetXXXXXXXXXXXXXXXXXhhZGt",
     ReissueAssetBurnAddress |-> "AIReissueAssetXXXXXXXXXXXXXXVEFAWu",
     IssueSubAssetBurnAddress |-> "AIissueSubAssetXXXXXXXXXXXXXWcwhwL",
     IssueUniqueAssetBurnAddress |-> "AIissueUniqueAssetXXXXXXXXXXWEAe58",
     IssueMsgChannelAssetBurnAddress |-> "AIissueMsgChanneLAssetXXXXXXSjHvAY",
     IssueQualifierAssetBurnAddress |-> "AIissueQuaLifierXXXXXXXXXXXXUgEDbC",
     IssueSubQualifierAssetBurnAddress |-> "AIissueSubQuaLifierXXXXXXXXXVTzvv5",
     IssueRestrictedAssetBurnAddress |-> "AIissueRestrictedXXXXXXXXXXXXzJZ1q",
     AddNullQualifierTagBurnAddress |-> "AIaddTagBurnXXXXXXXXXXXXXXXXZQm5ya",
     GlobalBurnAddress |-> "AIBurnXXXXXXXXXXXXXXXXXXXXXXWUo9FV"]

Testnet_BURN_ADDRESSES ==
    [IssueAssetBurnAddress |-> "n1issueAssetXXXXXXXXXXXXXXXXWdnemQ",
     ReissueAssetBurnAddress |-> "n1ReissueAssetXXXXXXXXXXXXXXWG9NLd",
     IssueSubAssetBurnAddress |-> "n1issueSubAssetXXXXXXXXXXXXXbNiH6v",
     IssueUniqueAssetBurnAddress |-> "n1issueUniqueAssetXXXXXXXXXXS4695i",
     IssueMsgChannelAssetBurnAddress |-> "n1issueMsgChanneLAssetXXXXXXT2PBdD",
     IssueQualifierAssetBurnAddress |-> "n1issueQuaLifierXXXXXXXXXXXXUysLTj",
     IssueSubQualifierAssetBurnAddress |-> "n1issueSubQuaLifierXXXXXXXXXYffPLh",
     IssueRestrictedAssetBurnAddress |-> "n1issueRestrictedXXXXXXXXXXXXZVT9V",
     AddNullQualifierTagBurnAddress |-> "n1addTagBurnXXXXXXXXXXXXXXXXX5oLMH",
     GlobalBurnAddress |-> "AcYHNBj8C6nCFSpu1ANsJxturWp31W32cd"]

\* the class body of AIPGMainnet, evaluated against the resources;
\* attributes it does not set are inherited from AbstractNet
AIPGMainnet ==
    [base |-> "AbstractNet",
     NET_NAME |-> "mainnet",
     TESTNET |-> FALSE,
     WIF_PREFIX |-> 128,
     ADDRTYPE_P2PKH |-> 23,
     ADDRTYPE_P2SH |-> 23,
     MATURE |-> 60,
     SEGWIT_HRP |-> "rc",
     BOLT11_HRP |-> "rc",
     GENESIS |-> "000000fe8c99a7aacc5aff074278a8378e625c0d02e4894db8f09bab185f4eb6",
     CHECKPOINTS |-> read_json("checkpoints.json", JsonList(0)),
     DGW_CHECKPOINTS |-> read_json("checkpoints_dgw.json", JsonList(0)),
     DGW_CHECKPOINTS_SPACING |-> 2016,
     DGW_CHECKPOINTS_START |-> 168 * 2016,
     XPRV_HEADERS |-> Mainnet_XPRV_HEADERS,
     XPRV_HEADERS_INV |-> inv_dict(Mainnet_XPRV_HEADERS),
     XPUB_HEADERS |-> Mainnet_XPUB_HEADERS,
     XPUB_HEADERS_INV |-> inv_dict(Mainnet_XPUB_HEADERS),
     BIP44_COIN_TYPE |-> 2686,
     BURN_ADDRESSES |-> Mainnet_BURN_ADDRESSES]
    @@ AbstractNet

\* the class body of AIPGTestnet
AIPGTestnet ==
    [base |-> "AbstractNet",
     NET_NAME |-> "testnet",
     BIP44_COIN_TYPE |-> 1,
     TESTNET |-> TRUE,
     WIF_PREFIX |-> 239,
     ADDRTYPE_P2PKH |-> 23,
     ADDRTYPE_P2SH |-> 23,
     MATURE |-> 60,
     SEGWIT_HRP |-> "tc",
     BOLT11_HRP |-> "tc",
     GENESIS |-> "000000f798386703ae778eeaf8a2f426dc2715eb8989b4226cddc1681b567760",
     CHECKPOINTS |-> JsonList(0),
     DGW_CHECKPOINTS |-> read_json("checkpoints_dgw_testnet.json", JsonList(0)),
     DGW_CHECKPOINTS_SPACING |-> 2016,
     DGW_CHECKPOINTS_START |-> 0,
     XPRV_HEADERS |-> Testnet_XPRV_HEADERS,
     XPRV_HEADERS_INV |-> inv_dict(Testnet_XPRV_HEADERS),
     XPUB_HEADERS |-> Testnet_XPUB_HEADERS,
     XPUB_HEADERS_INV |-> inv_dict(Testnet_XPUB_HEADERS),
     BURN_ADDRESSES |-> Testnet_BURN_ADDRESSES]
    @@ AbstractNet

\* the value a call returns, or the exception it ends with
Returned(v) == [exc |-> "none", val |-> v]

Raised(e) == [exc |-> e, val |-> 0]

\* plausible slip: the clamp at 0 is forgotten
max_legacy_checkpoint_noclamp(cls) ==
    IF HasLen(classes[cls].CHECKPOINTS)
    THEN Returned(classes[cls].CHECKPOINTS.len * 2016 - 1)
    ELSE Raised("TypeError")

\* max(0, len(cls.CHECKPOINTS) * 2016 - 1)
max_legacy_checkpoint(cls) ==
    IF HasLen(classes[cls].CHECKPOINTS)
    THEN Returned(Max(0, classes[cls].CHECKPOINTS.len * 2016 - 1))
    ELSE Raised("TypeError")

\* plausible slip: the legacy table is counted instead of the DGW table
max_checkpoint_legacy_len(cls) ==
    IF HasLen(classes[cls].CHECKPOINTS)
    THEN Returned(Max(0, classes[cls].DGW_CHECKPOINTS_START
                          + (classes[cls].CHECKPOINTS.len
                             * classes[cls].DGW_CHECKPOINTS_SPACING) - 1))
    ELSE Raised("TypeError")

\* max(0, cls.DGW_CHECKPOINTS_START + (len(cls.DGW_CHECKPOINTS) * cls.DGW_CHECKPOINTS_SPACING) - 1)
max_checkpoint(cls) ==
    IF HasLen(classes[cls].DGW_CHECKPOINTS)
    THEN Returned(Max(0, classes[cls].DGW_CHECKPOINTS_START
                          + (classes[cls].DGW_CHECKPOINTS.len
                             * classes[cls].DGW_CHECKPOINTS_SPACING) - 1))
    ELSE Raised("TypeError")

\* cls.__subclasses__(): the classes built with cls as their base
Subclasses(cls) == {c \in DOMAIN classes : classes[c].base = cls}

RECURSIVE all_subclasses(_)
all_subclasses(cls) ==
    Subclasses(cls) \cup UNION {all_subclasses(sub) : sub \in Subclasses(cls)}

----------------------------------------------------------------------------
(* The import: the top-level statements in order *)

NoClasses == [c \in {} |-> AbstractNet]

NoFields == [WIF_PREFIX |-> -1, SEGWIT_HRP |-> "", GENESIS |-> ""]

Init ==
    /\ pc = "helpers"
    /\ globals = {}
    /\ files \in [FileNames -> FileStates]
    /\ classes = NoClasses
    /\ NETS_LIST = {}
    /\ net = Unbound
    /\ exc = "none"
    /\ lastCall = "none"
    /\ ncalls = 0
    /\ rpc = "idle"
    /\ snap = Unbound
    /\ seen = NoFields
    /\ d = <<>>
    /\ d_inv = <<>>
    /\ ipc = "off"

\* lines 26-72: imports, inv_dict, read_json, the URLs, the NamedTuples
Load_helpers ==
    /\ pc = "helpers"
    /\ globals' = globals \cup {"inv_dict", "read_json", "GIT_REPO_URL",
                                "GIT_REPO_ISSUES_URL", "BIP39_WALLET_FORMATS",
                                "BurnAmounts", "BurnAddresses"}
    /\ pc' = "AbstractNet"
    /\ UNCHANGED <<files, classes, NETS_LIST, net, exc, lastCall, ncalls,
                   rpc, snap, seen, d, d_inv, ipc>>

\* lines 74-106
Class_AbstractNet ==
    /\ pc = "AbstractNet"
    /\ globals' = globals \cup {"AbstractNet"}
    /\ pc' = "AIPGMainnet"
    /\ UNCHANGED <<files, classes, NETS_LIST, net, exc, lastCall, ncalls,
                   rpc, snap, seen, d, d_inv, ipc>>

\* lines 109-180
Class_AIPGMainnet ==
    /\ pc = "AIPGMainnet"
    /\ classes' = ("AIPGMainnet" :> AIPGMainnet) @@ classes
    /\ globals' = globals \cup {"AIPGMainnet"}
    /\ pc' = "AIPGTestnet"
    /\ UNCHANGED <<files, NETS_LIST, net, exc, lastCall, ncalls,
                   rpc, snap, seen, d, d_inv, ipc>>

\* lines 183-256
Class_AIPGTestnet ==
    /\ pc = "AIPGTestnet"
    /\ classes' = ("AIPGTestnet" :> AIPGTestnet) @@ classes
    /\ globals' = globals \cup {"AIPGTestnet"}
    /\ pc' = "tail"
    /\ UNCHANGED <<files, NETS_LIST, net, exc, lastCall, ncalls,
                   rpc, snap, seen, d, d_inv, ipc>>

\* lines 259-278: def all_subclasses; NETS_LIST = ...; net = RavencoinMainnet;
\* def set_mainnet; def set_testnet.  Looking up a name the namespace does not
\* bind raises NameError, which ends the import: the statements after it never run.
Load_tail ==
    /\ pc = "tail"
    /\ NETS_LIST' = all_subclasses("AbstractNet")
    /\ IF "RavencoinMainnet" \in globals
       THEN /\ net' = "RavencoinMainnet"
            /\ globals' = globals \cup {"all_subclasses", "NETS_LIST", "net",
                                        "set_mainnet", "set_testnet"}
            /\ pc' = "loaded"
            /\ exc' = "none"
       ELSE /\ net' = net
            /\ globals' = globals \cup {"all_subclasses", "NETS_LIST"}
            /\ pc' = "failed"
            /\ exc' = "NameError"
    /\ UNCHANGED <<files, classes, lastCall, ncalls, rpc, snap, seen, d, d_inv, ipc>>

\* the import has ended, by reaching the end of the module or by an exception
ImportOver == pc \in {"loaded", "failed"}

----------------------------------------------------------------------------
(* The switch functions, as a caller of the module invokes them *)

\* a call of a module function `fn` whose body is `global net; net = <name>`
Switch(fn, name) ==
    /\ ImportOver
    /\ ncalls < MaxCalls
    /\ ncalls' = ncalls + 1
    /\ lastCall' = fn
    /\ IF fn \in globals /\ name \in globals
       THEN /\ net' = name
            /\ globals' = globals \cup {"net"}
            /\ exc' = "none"
       ELSE \* the function is not bound, or its body looks up an unbound name
            /\ net' = net
            /\ globals' = globals
            /\ exc' = "NameError"
    /\ UNCHANGED <<pc, files, classes, NETS_LIST, rpc, snap, seen, d, d_inv, ipc>>

\* lines 272-274
set_mainnet == Switch("set_mainnet", "RavencoinMainnet")

\* lines 276-278
set_testnet == Switch("set_testnet", "RavencoinTestnet")

----------------------------------------------------------------------------
(* A consumer that reads through the active profile: one snapshot of        *)
(* constants.net, then three attribute reads through the snapshot           *)

Reader ==
    /\ ImportOver
    /\ rpc \in {"idle", "wif", "hrp", "genesis"}
    /\ IF rpc = "idle"
       THEN IF "net" \in globals /\ net \in DOMAIN classes
            THEN /\ snap' = net
                 /\ rpc' = "wif"
                 /\ seen' = seen
            ELSE \* the global has no value, or no class object behind it
                 /\ snap' = snap
                 /\ rpc' = "raised"
                 /\ seen' = seen
       ELSE /\ snap' = snap
            /\ rpc' = CASE rpc = "wif" -> "hrp"
                        [] rpc = "hrp" -> "genesis"
                        [] OTHER -> "done"
            /\ seen' = CASE rpc = "wif" ->
                              [seen EXCEPT !.WIF_PREFIX = classes[snap].WIF_PREFIX]
                         [] rpc = "hrp" ->
                              [seen EXCEPT !.SEGWIT_HRP = classes[snap].SEGWIT_HRP]
                         [] OTHER ->
                              [seen EXCEPT !.GENESIS = classes[snap].GENESIS]
    /\ UNCHANGED <<pc, globals, files, classes, NETS_LIST, net, exc, lastCall,
                   ncalls, d, d_inv, ipc>>

Next ==
    \/ Load_helpers
    \/ Class_AbstractNet
    \/ Class_AIPGMainnet
    \/ Class_AIPGTestnet
    \/ Load_tail
    \/ set_mainnet
    \/ set_testnet
    \/ Reader

Spec == Init /\ [][Next]_vars

----------------------------------------------------------------------------
(* inv_dict on arbitrary version maps: the five scheme identifiers in the   *)
(* order the class bodies write them, each with a version in 1..MaxVersion  *)

SchemeOrder == <<"standard", "p2wpkh-p2sh", "p2wsh-p2sh", "p2wpkh", "p2wsh">>

VersionMaps ==
    {[i \in DOMAIN SchemeOrder |-> <<SchemeOrder[i], f[i]>>] :
        f \in [DOMAIN SchemeOrder -> 1..MaxVersion]}

InitInv ==
    /\ pc = "helpers"
    /\ globals = {}
    /\ files = [f \in FileNames |-> JsonList(0)]
    /\ classes = NoClasses
    /\ NETS_LIST = {}
    /\ net = Unbound
    /\ exc = "none"
    /\ lastCall = "none"
    /\ ncalls = 0
    /\ rpc = "idle"
    /\ snap = Unbound
    /\ seen = NoFields
    /\ d \in VersionMaps
    /\ d_inv = <<>>
    /\ ipc = "start"

\* XPRV_HEADERS_INV = inv_dict(XPRV_HEADERS) in a class body (lines 146, 154, 223, 231)
Apply_inv_dict ==
    /\ ipc = "start"
    /\ d_inv' = inv_dict(d)
    /\ exc' = "none"
    /\ ipc' = "built"
    /\ UNCHANGED <<pc, globals, files, classes, NETS_LIST, net, lastCall, ncalls,
                   rpc, snap, seen, d>>

NextInv == Apply_inv_dict

SpecInv == InitInv /\ [][NextInv]_vars

----------------------------------------------------------------------------
(* The claims *)

Profiles == {"AIPGMainnet", "AIPGTestnet"}

\* every field read through the active profile is the field of profile p
ActiveReadsAs(p) ==
    /\ "net" \in globals
    /\ net \in DOMAIN classes
    /\ p \in DOMAIN classes
    /\ classes[net].NET_NAME = classes[p].NET_NAME
    /\ classes[net].TESTNET = classes[p].TESTNET
    /\ classes[net].SEGWIT_HRP = classes[p].SEGWIT_HRP
    /\ classes[net].GENESIS = classes[p].GENESIS
    /\ classes[net].BIP44_COIN_TYPE = classes[p].BIP44_COIN_TYPE
    /\ classes[net].BURN_ADDRESSES = classes[p].BURN_ADDRESSES

\* C1: when the last switch called was set_testnet, the WIF prefix read through
\* the active profile is 239 and every other field read through it is the
\* testnet profile's; when it was set_mainnet, the prefix is 128 and every
\* other field is the mainnet profile's.
C1_SwitchSelectsProfile ==
    /\ lastCall = "set_testnet" =>
          /\ ActiveReadsAs("AIPGTestnet")
          /\ classes[net].WIF_PREFIX = 239
    /\ lastCall = "set_mainnet" =>
          /\ ActiveReadsAs("AIPGMainnet")
          /\ classes[net].WIF_PREFIX = 128

\* C2: once the module has been loaded, and after any sequence of switch calls,
\* the global `net` has a value, and that value is one of the profiles the
\* module defines (the mainnet or the testnet class).
C2_ActiveIsDefinedProfile ==
    ImportOver =>
        /\ "net" \in globals
        /\ net \in Profiles
        /\ net \in DOMAIN classes

C4_MaxCheckpoint ==
    \A c \in DOMAIN classes :
        classes[c].DGW_CHECKPOINTS.kind = "list" =>
            LET n == classes[c].DGW_CHECKPOINTS.len
                h == classes[c].DGW_CHECKPOINTS_START
                       + n * classes[c].DGW_CHECKPOINTS_SPACING
                r == max_checkpoint(c)
            IN  /\ r.exc = "none"
                /\ h >= 1 => r.val = h - 1
                /\ h < 1 => r.val = 0
                /\ (c = "AIPGMainnet" /\ n = 5000) =>
                      /\ classes[c].DGW_CHECKPOINTS_START = 338688
                      /\ classes[c].DGW_CHECKPOINTS_SPACING = 2016
                      /\ r.val = 10418687

\* C4 witness: both profiles are built, mainnet with 5000 DGW checkpoints and a
\* different number of legacy ones, testnet with none (the clamped case).
C4_Witness ==
    /\ Profiles \subseteq DOMAIN classes
    /\ classes["AIPGMainnet"].DGW_CHECKPOINTS = JsonList(5000)
    /\ classes["AIPGMainnet"].CHECKPOINTS = JsonList(168)
    /\ classes["AIPGTestnet"].DGW_CHECKPOINTS = JsonList(0)
    /\ max_checkpoint("AIPGMainnet").val = 10418687
    /\ max_checkpoint("AIPGTestnet").val = 0

\* C5: for every profile whose legacy table is a list of n entries,
\* max_legacy_checkpoint() returns 0 when n = 0 and n * 2016 - 1 otherwise.
C5_MaxLegacyCheckpoint ==
    \A c \in DOMAIN classes :
        classes[c].CHECKPOINTS.kind = "list" =>
            LET n == classes[c].CHECKPOINTS.len
                r == max_legacy_checkpoint(c)
            IN  /\ r.exc = "none"
                /\ n = 0 => r.val = 0
                /\ n > 0 => r.val = n * 2016 - 1

\* C5 witness: mainnet is built with 168 legacy checkpoints, testnet with its
\* empty legacy list.
C5_Witness ==
    /\ Profiles \subseteq DOMAIN classes
    /\ classes["AIPGMainnet"].CHECKPOINTS = JsonList(168)
    /\ max_legacy_checkpoint("AIPGMainnet").val = 338687
    /\ classes["AIPGTestnet"].CHECKPOINTS = JsonList(0)
    /\ max_legacy_checkpoint("AIPGTestnet").val = 0

\* a resource that is missing, is not valid JSON, or does not hold a list
Corrupt(f) == files[f].kind # "list"

\* C6: a profile built from a missing or malformed checkpoint resource
\* (unreadable, invalid JSON, or content that is not a list) has the empty list
\* as that era's table; with a corrupt legacy resource max_legacy_checkpoint()
\* returns 0.
C6_CorruptResourceDegradesToEmpty ==
    /\ ("AIPGMainnet" \in DOMAIN classes /\ Corrupt("checkpoints.json")) =>
          /\ classes["AIPGMainnet"].CHECKPOINTS = JsonList(0)
          /\ max_legacy_checkpoint("AIPGMainnet") = Returned(0)
    /\ ("AIPGMainnet" \in DOMAIN classes /\ Corrupt("checkpoints_dgw.json")) =>
          classes["AIPGMainnet"].DGW_CHECKPOINTS = JsonList(0)
    /\ ("AIPGTestnet" \in DOMAIN classes /\ Corrupt("checkpoints_dgw_testnet.json")) =>
          classes["AIPGTestnet"].DGW_CHECKPOINTS = JsonList(0)

\* two different keys of dd carry the same value
HasDuplicate(dd) ==
    \E i, j \in DOMAIN dd : i # j /\ dd[i][2] = dd[j][2]

\* C7: building the inverse of a version map that gives one version to two
\* scheme identifiers ends with an error, and no inverse is built that keeps
\* only one of the two schemes.
C7_DuplicateVersionRaises ==
    (ipc = "built" /\ HasDuplicate(d)) =>
        /\ exc # "none"
        /\ Len(d_inv) # Cardinality({d[i][2] : i \in DOMAIN d})

\* inv is the exact inverse of the map m, which is injective and has five keys
ExactInverse(m, inv) ==
    /\ ~HasDuplicate(m)
    /\ \A i \in DOMAIN m :
          /\ DictHas(inv, m[i][2])
          /\ DictGet(inv, m[i][2]) = m[i][1]
    /\ \A j \in DOMAIN inv :
          /\ DictHas(m, inv[j][2])
          /\ DictGet(m, inv[j][2]) = inv[j][1]
    /\ {m[i][1] : i \in DOMAIN m} = {SchemeOrder[i] : i \in DOMAIN SchemeOrder}
    /\ Len(inv) = 5

\* C8: in both profiles, for the private and for the public version map, no two
\* of the five schemes share a version, and the computed inverse is the exact
\* inverse with exactly five entries.
C8_VersionMapsInjective ==
    \A c \in DOMAIN classes :
        /\ ExactInverse(classes[c].XPRV_HEADERS, classes[c].XPRV_HEADERS_INV)
        /\ ExactInverse(classes[c].XPUB_HEADERS, classes[c].XPUB_HEADERS_INV)

\* C8 witness: both profiles are built, each with its inverse maps computed.
C8_Witness ==
    /\ Profiles \subseteq DOMAIN classes
    /\ DictGet(classes["AIPGMainnet"].XPRV_HEADERS_INV, 76066276) = "standard"
    /\ DictGet(classes["AIPGTestnet"].XPUB_HEADERS_INV, 39277699) = "p2wsh"

C10_EmptyDgwFloor ==
    /\ \A c \in DOMAIN classes :
          classes[c].DGW_CHECKPOINTS = JsonList(0) =>
              /\ max_checkpoint(c).exc = "none"
              /\ c = "AIPGTestnet" => max_checkpoint(c).val = 0
              /\ c = "AIPGMainnet" => max_checkpoint(c).val = 338687
    /\ "AIPGMainnet" \in DOMAIN classes =>
          /\ max_checkpoint("AIPGMainnet").exc = "none"
          /\ max_checkpoint("AIPGMainnet").val >= 338687

====
